---- MODULE Spec2Model ----
\* Model of src/src/pathfind.py: the Map class (construction, coordinate
\* validation, passability, neighbour generation) and its two searches,
\* get_shortest_path (breadth-first) and get_shortest_path_astar (A-star).
\*
\* Python indexes from 0 and TLA+ sequences from 1: array[y][x] of the
\* source is array[y + 1][x + 1] here.  A Coord is the record [x, y].
EXTENDS Integers, Sequences, FiniteSets, Bags, TLC

\* Bounds of the model: the raw maps have at most MaxRows lines of at most
\* MaxCols tiles each (lines may differ in length and may be empty).
MaxRows == 2
MaxCols == 2

\* The characters a raw map is written with.
SPACE == " "
NEWLINE == "\n"
BLOCKED == "#"
OPEN == "."

Coord(x, y) == [x |-> x, y |-> y]

\* The value of a field or local that holds nothing yet (Python: unassigned).
None == [x |-> -9, y |-> -9]

----------------------------------------------------------------------------
\* Raw maps and their parsing (Map.__init__, line 30).

RECURSIVE SplitOn(_, _, _)
\* s.split(sep) for a one-character separator: the pieces between the
\* separators, empty pieces kept; `cur` is the piece being read.
SplitOn(s, sep, cur) ==
    IF s = <<>> THEN <<cur>>
    ELSE IF Head(s) = sep THEN <<cur>> \o SplitOn(Tail(s), sep, <<>>)
    ELSE SplitOn(Tail(s), sep, Append(cur, Head(s)))

RECURSIVE SplitWhitespace(_, _)
\* s.split(): the maximal runs of non-whitespace characters, no empty piece.
SplitWhitespace(s, cur) ==
    IF s = <<>> THEN (IF cur = <<>> THEN <<>> ELSE <<cur>>)
    ELSE IF Head(s) \in {SPACE, NEWLINE}
         THEN (IF cur = <<>> THEN <<>> ELSE <<cur>>) \o SplitWhitespace(Tail(s), <<>>)
    ELSE SplitWhitespace(Tail(s), Append(cur, Head(s)))

\* list(map(lambda x: x.split(), array.split("\n"))): a tile is a token, that
\* is a sequence of characters.
Parse(raw) ==
    LET lines == SplitOn(raw, NEWLINE, <<>>)
    IN  [i \in 1..Len(lines) |-> SplitWhitespace(lines[i], <<>>)]

RECURSIVE Join(_, _)
\* sep.join(parts) over sequences of characters.
Join(parts, sep) ==
    IF parts = <<>> THEN <<>>
    ELSE IF Len(parts) = 1 THEN parts[1]
    ELSE parts[1] \o <<sep>> \o Join(Tail(parts), sep)

\* The raw maps of the model: every text of 1..MaxRows lines, each line
\* 0..MaxCols tiles "." or "#" separated by one space (the tests' format).
TileRows == UNION {[1..k -> {<<OPEN>>, <<BLOCKED>>}] : k \in 0..MaxCols}
RawMaps ==
    LET grids == UNION {[1..n -> TileRows] : n \in 1..MaxRows}
    IN  {Join([i \in 1..Len(g) |-> Join(g[i], SPACE)], NEWLINE) : g \in grids}

\* The coordinates a caller may pass with a map of RawMaps: one step outside
\* the largest map in every direction, so that each bounds rule can be broken.
ArgCoords == {Coord(x, y) : x \in -1..MaxCols, y \in -1..MaxRows}

\* The maps of src/test/test_pathfind.py, as the characters of their text.
Text(rows) == Join([i \in 1..Len(rows) |-> Join([j \in 1..Len(rows[i]) |-> <<rows[i][j]>>], SPACE)], NEWLINE)
SuccessMap ==
    Text(<< <<".", "P", ".", ".", ".">>,
            <<".", "#", "#", "#", ".">>,
            <<".", ".", ".", ".", ".">>,
            <<".", ".", "Q", ".", ".">>,
            <<".", ".", ".", ".", ".">> >>)
NoPathMap ==
    Text(<< <<".", "P", ".", ".", ".">>,
            <<".", "#", "#", "#", ".">>,
            <<".", "#", "#", "#", ".">>,
            <<".", "#", "Q", "#", ".">>,
            <<".", "#", "#", "#", ".">> >>)
CoincidentMap ==
    Text(<< <<".", "P", ".", ".", ".">>,
            <<".", "#", "#", "#", ".">>,
            <<".", ".", ".", ".", ".">>,
            <<".", ".", ".", ".", ".">>,
            <<".", ".", ".", ".", ".">> >>)

\* The calls pathfind(array, p, q) of the tests (test_large_map left out).
TestCalls ==
    { [array |-> SuccessMap, p |-> Coord(1, 0), q |-> Coord(2, 3)],
      [array |-> SuccessMap, p |-> Coord(2, 3), q |-> Coord(1, 0)],
      [array |-> NoPathMap, p |-> Coord(1, 0), q |-> Coord(2, 3)],
      [array |-> SuccessMap, p |-> Coord(-1, 10), q |-> Coord(10, -1)],
      [array |-> CoincidentMap, p |-> Coord(1, 0), q |-> Coord(1, 0)] }

\* The raw maps a Map is built from, and the p and q passed with each: the
\* tests' own coordinates with a map of the tests, any two of ArgCoords with
\* a map of RawMaps.
TestMaps == {c.array : c \in TestCalls}
ArgMaps == RawMaps \cup TestMaps
ArgPairs(raw) ==
    IF raw \in TestMaps
    THEN {<<c.p, c.q>> : c \in {t \in TestCalls : t.array = raw}}
    ELSE ArgCoords \X ArgCoords

----------------------------------------------------------------------------
\* Map._validate_coord, Map._is_passable, Map._get_neighbours.

ErrYNegative == <<"y coordinate must not be negative">>
ErrXNegative == <<"x coordinate must not be negative">>
ErrYMaximum(yext) == <<"y coordinate must be maximum", yext - 1>>
ErrXRange(y, xext) ==
    <<"x coordinate out of range for line", y, "Must be maximum", xext>>

\* Mutant of validate_coord: the last row is taken to be outside the map
\* (y is compared with y_extent - 1).
validate_coord_last_row(arr, yext, coord) ==
    LET e1 == IF coord.y < 0 THEN <<ErrYNegative>> ELSE <<>>
        e2 == IF coord.x < 0 THEN <<ErrXNegative>> ELSE <<>>
        e3 == IF coord.y >= yext - 1 THEN <<ErrYMaximum(yext)>> ELSE <<>>
        y_valid == ~(coord.y < 0) /\ ~(coord.y >= yext - 1)
        e4 == IF y_valid /\ coord.x >= Len(arr[coord.y + 1])
              THEN <<ErrXRange(coord.y, Len(arr[coord.y + 1]))>>
              ELSE <<>>
    IN  e1 \o e2 \o e3 \o e4

\* Mutant of validate_coord: the checks are chained with elif, so that only
\* the first rule that is violated is reported.
validate_coord_first_only(arr, yext, coord) ==
    IF coord.y < 0 THEN <<ErrYNegative>>
    ELSE IF coord.x < 0 THEN <<ErrXNegative>>
    ELSE IF coord.y >= yext THEN <<ErrYMaximum(yext)>>
    ELSE IF coord.x >= Len(arr[coord.y + 1])
         THEN <<ErrXRange(coord.y, Len(arr[coord.y + 1]))>>
    ELSE <<>>

\* The list `errors` that _validate_coord builds for coord, in order; the
\* method raises OutOfBoundsError exactly when the list is not empty.
validate_coord(arr, yext, coord) ==
    LET e1 == IF coord.y < 0 THEN <<ErrYNegative>> ELSE <<>>
        e2 == IF coord.x < 0 THEN <<ErrXNegative>> ELSE <<>>
        e3 == IF coord.y >= yext THEN <<ErrYMaximum(yext)>> ELSE <<>>
        y_valid == ~(coord.y < 0) /\ ~(coord.y >= yext)
        e4 == IF y_valid /\ coord.x >= Len(arr[coord.y + 1])
              THEN <<ErrXRange(coord.y, Len(arr[coord.y + 1]))>>
              ELSE <<>>
    IN  e1 \o e2 \o e3 \o e4

\* The outcome of a call: a returned value, or a raised exception.
Return(v) == [raised |-> FALSE, value |-> v]
Raise(v) == [raised |-> TRUE, value |-> v]

\* Mutant of is_passable: the tile is not looked at, every cell inside the
\* map is passable.
is_passable_ignores_blocked(arr, yext, coord) ==
    IF Len(validate_coord(arr, yext, coord)) > 0 THEN Return(FALSE)
    ELSE Return(TRUE)

\* Mutant of is_passable: no except clause, the OutOfBoundsError of the
\* validation leaves the method.
is_passable_propagates(arr, yext, coord) ==
    IF Len(validate_coord(arr, yext, coord)) > 0 THEN Raise(FALSE)
    ELSE Return(arr[coord.y + 1][coord.x + 1] # <<BLOCKED>>)

\* _is_passable: the try block returns array[y][x] != "#" when the validation
\* raises nothing; the except clause turns an OutOfBoundsError into False.
is_passable(arr, yext, coord) ==
    IF Len(validate_coord(arr, yext, coord)) > 0 THEN Return(FALSE)
    ELSE Return(arr[coord.y + 1][coord.x + 1] # <<BLOCKED>>)

\* Mutant of candidates: the vertical pair comes before the horizontal one.
candidates_vertical_first(coord) ==
    << Coord(coord.x, coord.y - 1), Coord(coord.x, coord.y + 1),
       Coord(coord.x - 1, coord.y), Coord(coord.x + 1, coord.y) >>

\* The four candidates of _get_neighbours, in the order of line 90.
candidates(coord) ==
    << Coord(coord.x - 1, coord.y), Coord(coord.x + 1, coord.y),
       Coord(coord.x, coord.y - 1), Coord(coord.x, coord.y + 1) >>

RECURSIVE yield_from(_, _, _, _)
\* The generator's loop over the candidates cs: `out` is what it has yielded.
\* An exception escaping _is_passable ends the generator where it is raised.
yield_from(arr, yext, cs, out) ==
    IF cs = <<>> THEN Return(out)
    ELSE LET r == is_passable(arr, yext, Head(cs))
         IN  IF r.raised THEN Raise(out)
             ELSE yield_from(arr, yext, Tail(cs),
                             IF r.value THEN Append(out, Head(cs)) ELSE out)

\* _get_neighbours(coord): the sequence of neighbours the generator yields
\* (value) and whether it ends by raising (raised).
get_neighbours(arr, yext, coord) == yield_from(arr, yext, candidates(coord), <<>>)

----------------------------------------------------------------------------
\* The results of a search.

NoResult == [tag |-> "none", steps |-> -1]
Steps(n) == [tag |-> "steps", steps |-> n]
NoPossiblePath == [tag |-> "NoPossiblePath", steps |-> -1]
OutOfBoundsError == [tag |-> "OutOfBoundsError", steps |-> -1]

----------------------------------------------------------------------------
\* get_shortest_path: one iteration of the while loop (lines 109-115).

RECURSIVE bfs_scan(_, _, _, _)

\* Mutant of bfs_scan: reaching q returns the steps of the dequeued entry,
\* the last move is not counted.
bfs_scan_off_by_one(ns, steps, goal, st) ==
    IF ns = <<>> THEN st
    ELSE LET neighbour == Head(ns)
         IN  IF neighbour = goal THEN [st EXCEPT !.ret = Steps(steps)]
             ELSE IF neighbour \notin st.visited
                  THEN bfs_scan(Tail(ns), steps, goal,
                           [st EXCEPT !.queue = Append(@, <<neighbour, steps + 1>>),
                                      !.visited = @ \cup {neighbour}])
                  ELSE bfs_scan(Tail(ns), steps, goal, st)

\* Mutant of bfs_scan: visited.add(neighbour) of line 115 is left out.
bfs_scan_no_mark(ns, steps, goal, st) ==
    IF ns = <<>> THEN st
    ELSE LET neighbour == Head(ns)
         IN  IF neighbour = goal THEN [st EXCEPT !.ret = Steps(steps + 1)]
             ELSE IF neighbour \notin st.visited
                  THEN bfs_scan(Tail(ns), steps, goal,
                           [st EXCEPT !.queue = Append(@, <<neighbour, steps + 1>>)])
                  ELSE bfs_scan(Tail(ns), steps, goal, st)

\* The for loop over the neighbours ns of a dequeued entry with `steps`:
\* st = [ret, visited, queue]; the loop stops at the first return.
bfs_scan(ns, steps, goal, st) ==
    IF ns = <<>> THEN st
    ELSE LET neighbour == Head(ns)
         IN  IF neighbour = goal THEN [st EXCEPT !.ret = Steps(steps + 1)]
             ELSE IF neighbour \notin st.visited
                  THEN bfs_scan(Tail(ns), steps, goal,
                           [st EXCEPT !.queue = Append(@, <<neighbour, steps + 1>>),
                                      !.visited = @ \cup {neighbour}])
                  ELSE bfs_scan(Tail(ns), steps, goal, st)

\* Mutant of bfs_iteration: the front entry is read (queue[0]) but not
\* removed from the queue.
bfs_iteration_no_pop(arr, yext, goal, vis, que) ==
    LET coord == Head(que)[1]
        steps == Head(que)[2]
        ns == get_neighbours(arr, yext, coord)
        st == bfs_scan(ns.value, steps, goal,
                       [ret |-> NoResult, visited |-> vis, queue |-> que])
    IN  IF st.ret = NoResult /\ ns.raised
        THEN [st EXCEPT !.ret = OutOfBoundsError]
        ELSE st

\* Mutant of bfs_iteration: the entry is taken from the right end of the
\* deque (pop instead of popleft), the newest entry first.
bfs_iteration_pop_right(arr, yext, goal, vis, que) ==
    LET coord == que[Len(que)][1]
        steps == que[Len(que)][2]
        ns == get_neighbours(arr, yext, coord)
        st == bfs_scan(ns.value, steps, goal,
                       [ret |-> NoResult, visited |-> vis,
                        queue |-> SubSeq(que, 1, Len(que) - 1)])
    IN  IF st.ret = NoResult /\ ns.raised
        THEN [st EXCEPT !.ret = OutOfBoundsError]
        ELSE st

\* coord, steps = queue.popleft(); for neighbour in _get_neighbours(coord): ...
bfs_iteration(arr, yext, goal, vis, que) ==
    LET coord == Head(que)[1]
        steps == Head(que)[2]
        ns == get_neighbours(arr, yext, coord)
        st == bfs_scan(ns.value, steps, goal,
                       [ret |-> NoResult, visited |-> vis, queue |-> Tail(que)])
    IN  IF st.ret = NoResult /\ ns.raised
        THEN [st EXCEPT !.ret = OutOfBoundsError]
        ELSE st

----------------------------------------------------------------------------
\* PriorityQueue (src/priority_queue.py is not among the sources): a bag of
\* <<item, priority>> entries; the same item may be held several times.

pq_empty == EmptyBag
pq_add(pq, item, priority) == pq (+) SetToBag({<<item, priority>>})
pq_len(pq) == BagCardinality(pq)
\* The entries pop() may remove: those of lowest priority, ties unordered.
pq_min(pq) ==
    {e \in BagToSet(pq) : \A o \in BagToSet(pq) : e[2] <= o[2]}
pq_remove(pq, e) == pq (-) SetToBag({e})
\* The priority add() gives an item pushed without one (line 137).
DefaultPriorities == {0, 1}

----------------------------------------------------------------------------
\* get_shortest_path_astar: one iteration of the while loop (lines 139-152).

abs(n) == IF n < 0 THEN -n ELSE n

\* abs(a.x-b.x) + abs(a.y-b.y)
heuristic(a, b) == abs(a.x - b.x) + abs(a.y - b.y)

\* Mutant of relax: the test of lines 150-151 is left out, the distance of the
\* successor is overwritten on every visit.
relax_unconditional(dist, node, successor) ==
    [c \in DOMAIN dist \cup {successor} |->
        IF c = successor THEN dist[node] + 1 ELSE dist[c]]

\* if successor not in distance or distance[node] + 1 < distance[successor]:
\*     distance[successor] = distance[node] + 1
relax(dist, node, successor) ==
    IF successor \notin DOMAIN dist \/ dist[node] + 1 < dist[successor]
    THEN [c \in DOMAIN dist \cup {successor} |->
            IF c = successor THEN dist[node] + 1 ELSE dist[c]]
    ELSE dist

RECURSIVE astar_scan(_, _, _, _)

\* Mutant of astar_scan: the priority is the heuristic alone, the steps taken
\* so far are left out (a greedy best-first search).
astar_scan_greedy(ss, node, goal, st) ==
    IF ss = <<>> THEN st
    ELSE LET successor == Head(ss)
             pushed == pq_add(st.frontier, successor, heuristic(successor, goal))
         IN  astar_scan(Tail(ss), node, goal,
                 [distance |-> relax(st.distance, node, successor),
                  frontier |-> pushed])

\* Mutant of astar_scan: the steps taken are subtracted from the priority
\* instead of added, so that the entry farthest from p is popped first.
astar_scan_steps_subtracted(ss, node, goal, st) ==
    IF ss = <<>> THEN st
    ELSE LET successor == Head(ss)
             pushed == pq_add(st.frontier, successor,
                              heuristic(successor, goal) - st.distance[node] - 1)
         IN  astar_scan(Tail(ss), node, goal,
                 [distance |-> relax(st.distance, node, successor),
                  frontier |-> pushed])

\* The for loop over the successors ss of node: st = [distance, frontier].
astar_scan(ss, node, goal, st) ==
    IF ss = <<>> THEN st
    ELSE LET successor == Head(ss)
             pushed == pq_add(st.frontier, successor,
                              st.distance[node] + 1 + heuristic(successor, goal))
         IN  astar_scan(Tail(ss), node, goal,
                 [distance |-> relax(st.distance, node, successor),
                  frontier |-> pushed])

\* Mutant of astar_iteration: the test `if node in visited: continue` of
\* lines 140-141 is left out, a stale entry is expanded like a fresh one.
astar_iteration_no_filter(arr, yext, goal, node, vis, dist, front) ==
    IF node = goal
    THEN [ret |-> Steps(dist[node]), visited |-> vis, distance |-> dist,
          frontier |-> front]
    ELSE LET ss == get_neighbours(arr, yext, node)
             st == astar_scan(ss.value, node, goal,
                              [distance |-> dist, frontier |-> front])
         IN  [ret |-> IF ss.raised THEN OutOfBoundsError ELSE NoResult,
              visited |-> vis \cup {node},
              distance |-> st.distance,
              frontier |-> st.frontier]

\* The body of the while loop once `node` has been popped, leaving `front`.
astar_iteration(arr, yext, goal, node, vis, dist, front) ==
    LET same == [ret |-> NoResult, visited |-> vis, distance |-> dist,
                 frontier |-> front]
    IN  IF node \in vis THEN same
        ELSE IF node = goal THEN [same EXCEPT !.ret = Steps(dist[node])]
        ELSE LET ss == get_neighbours(arr, yext, node)
                 st == astar_scan(ss.value, node, goal,
                                  [distance |-> dist, frontier |-> front])
             IN  [ret |-> IF ss.raised THEN OutOfBoundsError ELSE NoResult,
                  visited |-> vis \cup {node},
                  distance |-> st.distance,
                  frontier |-> st.frontier]

----------------------------------------------------------------------------
\* The state: a Map under construction or constructed, and the locals of the
\* search that is running on it.

VARIABLES
    array_arg,     \* the text passed to Map.__init__ as `array`
    array,         \* self.array
    y_extent,      \* self.y_extent
    p,             \* self.p (None until assigned)
    q,             \* self.q (None until assigned)
    pc,            \* "init", "oob", "ready", "bfs" or "astar"
    error,         \* the OutOfBoundsError raised by __init__: [coord, errors]
    visited,       \* the running search's `visited`
    queue,         \* get_shortest_path's `queue`
    distance,      \* get_shortest_path_astar's `distance`
    frontier,      \* get_shortest_path_astar's `frontier`
    bfs_result,    \* what get_shortest_path returned or raised
    astar_result,  \* what get_shortest_path_astar returned or raised
    previous       \* the results on the Map built before this one, if any

vars == <<array_arg, array, y_extent, p, q, pc, error, visited, queue,
          distance, frontier, bfs_result, astar_result, previous>>

map_fields == <<array_arg, array, y_extent, p, q, error, previous>>

NoError == [coord |-> None, errors |-> <<>>]
NoPrevious == [bfs |-> NoResult, astar |-> NoResult]

\* Map(array, p, q) is about to be called with the text array_arg.
Init ==
    /\ array_arg \in ArgMaps
    /\ array = <<>>
    /\ y_extent = 0
    /\ p = None
    /\ q = None
    /\ pc = "init"
    /\ error = NoError
    /\ visited = {}
    /\ queue = <<>>
    /\ distance = <<>>
    /\ frontier = pq_empty
    /\ bfs_result = NoResult
    /\ astar_result = NoResult
    /\ previous = NoPrevious

\* Mutant of init_map: the constructor also asks _is_passable and rejects a
\* p or q that lies on a "#" tile.
init_map_checks_tile(parsed, a, b) ==
    LET blocked(c) == IF is_passable(parsed, Len(parsed), c).value THEN <<>>
                      ELSE << <<"coordinate is not passable">> >>
        ep == validate_coord(parsed, Len(parsed), a) \o blocked(a)
        eq == validate_coord(parsed, Len(parsed), b) \o blocked(b)
    IN  IF Len(ep) > 0
        THEN [array |-> parsed, y_extent |-> Len(parsed), p |-> None, q |-> None,
              error |-> [coord |-> a, errors |-> ep]]
        ELSE IF Len(eq) > 0
        THEN [array |-> parsed, y_extent |-> Len(parsed), p |-> a, q |-> None,
              error |-> [coord |-> b, errors |-> eq]]
        ELSE [array |-> parsed, y_extent |-> Len(parsed), p |-> a, q |-> b,
              error |-> NoError]

\* Map.__init__ after line 30 has parsed the text (lines 31-35), for the
\* arguments p = a and q = b, as the fields it leaves: validate p, assign it,
\* validate q, assign it; the first failure raises, so q is not looked at
\* when p is rejected.
init_map(parsed, a, b) ==
    LET ep == validate_coord(parsed, Len(parsed), a)
        eq == validate_coord(parsed, Len(parsed), b)
    IN  IF Len(ep) > 0
        THEN [array |-> parsed, y_extent |-> Len(parsed), p |-> None, q |-> None,
              error |-> [coord |-> a, errors |-> ep]]
        ELSE IF Len(eq) > 0
        THEN [array |-> parsed, y_extent |-> Len(parsed), p |-> a, q |-> None,
              error |-> [coord |-> b, errors |-> eq]]
        ELSE [array |-> parsed, y_extent |-> Len(parsed), p |-> a, q |-> b,
              error |-> NoError]

\* Map(array_arg, a, b): the constructor returns (pc = "ready") or raises
\* OutOfBoundsError (pc = "oob").
Construct ==
    /\ pc = "init"
    /\ \E parsed \in {Parse(array_arg)} :
           \E pair \in ArgPairs(array_arg) :
               \E m \in {init_map(parsed, pair[1], pair[2])} :
                   /\ array' = m.array
                   /\ y_extent' = m.y_extent
                   /\ p' = m.p
                   /\ q' = m.q
                   /\ error' = m.error
                   /\ pc' = IF m.error = NoError THEN "ready" ELSE "oob"
    /\ UNCHANGED <<array_arg, visited, queue, distance, frontier,
                   bfs_result, astar_result, previous>>

\* Mutant of BfsCall: the test p == q of line 103 is left out.
BfsCall_no_shortcut ==
    /\ pc = "ready"
    /\ bfs_result = NoResult
    /\ visited' = {p}
    /\ queue' = << <<p, 0>> >>
    /\ pc' = "bfs"
    /\ UNCHANGED <<map_fields, distance, frontier, bfs_result, astar_result>>

\* get_shortest_path is called (lines 103-106).
BfsCall ==
    /\ pc = "ready"
    /\ bfs_result = NoResult
    /\ IF p = q
       THEN /\ bfs_result' = Steps(0)
            /\ UNCHANGED <<pc, visited, queue>>
       ELSE /\ visited' = {p}
            /\ queue' = << <<p, 0>> >>
            /\ pc' = "bfs"
            /\ UNCHANGED bfs_result
    /\ UNCHANGED <<map_fields, distance, frontier, astar_result>>

\* Mutant of BfsStep: the search marks the coordinate it dequeues on the grid
\* itself, overwriting its tile with "#".
BfsStep_marks_grid ==
    /\ pc = "bfs"
    /\ Len(queue) > 0
    /\ array' = [array EXCEPT ![Head(queue)[1].y + 1][Head(queue)[1].x + 1] =
                                <<BLOCKED>>]
    /\ \E st \in {bfs_iteration(array, y_extent, q, visited, queue)} :
           IF st.ret = NoResult
           THEN /\ visited' = st.visited
                /\ queue' = st.queue
                /\ UNCHANGED <<pc, bfs_result>>
           ELSE /\ bfs_result' = st.ret
                /\ pc' = "ready"
                /\ visited' = {}
                /\ queue' = <<>>
    /\ UNCHANGED <<array_arg, y_extent, p, q, error, previous, distance,
                   frontier, astar_result>>

\* One iteration of the while loop of get_shortest_path (lines 108-115).
BfsStep ==
    /\ pc = "bfs"
    /\ Len(queue) > 0
    /\ \E st \in {bfs_iteration(array, y_extent, q, visited, queue)} :
           IF st.ret = NoResult
           THEN /\ visited' = st.visited
                /\ queue' = st.queue
                /\ UNCHANGED <<pc, bfs_result>>
           ELSE /\ bfs_result' = st.ret
                /\ pc' = "ready"
                /\ visited' = {}
                /\ queue' = <<>>
    /\ UNCHANGED <<map_fields, distance, frontier, astar_result>>

\* Mutant of BfsExhausted: with the queue empty the method returns -1 where
\* line 117 raises.
BfsExhausted_returns ==
    /\ pc = "bfs"
    /\ Len(queue) = 0
    /\ bfs_result' = Steps(-1)
    /\ pc' = "ready"
    /\ visited' = {}
    /\ UNCHANGED <<map_fields, queue, distance, frontier, astar_result>>

\* The queue is empty: line 117 raises NoPossiblePath.
BfsExhausted ==
    /\ pc = "bfs"
    /\ Len(queue) = 0
    /\ bfs_result' = NoPossiblePath
    /\ pc' = "ready"
    /\ visited' = {}
    /\ UNCHANGED <<map_fields, queue, distance, frontier, astar_result>>

\* get_shortest_path_astar is called (lines 134-137), on the Map that
\* get_shortest_path has searched.
AstarCall ==
    /\ pc = "ready"
    /\ bfs_result # NoResult
    /\ astar_result = NoResult
    /\ \E priority \in DefaultPriorities :
           frontier' = pq_add(pq_empty, p, priority)
    /\ visited' = {}
    /\ distance' = [c \in {p} |-> 0]
    /\ pc' = "astar"
    /\ UNCHANGED <<map_fields, queue, bfs_result, astar_result>>

\* One iteration of the while loop of get_shortest_path_astar (lines 138-152).
AstarStep ==
    /\ pc = "astar"
    /\ pq_len(frontier) > 0
    /\ \E e \in pq_min(frontier) :
           \E st \in {astar_iteration(array, y_extent, q, e[1], visited,
                                      distance, pq_remove(frontier, e))} :
               IF st.ret = NoResult
               THEN /\ visited' = st.visited
                    /\ distance' = st.distance
                    /\ frontier' = st.frontier
                    /\ UNCHANGED <<pc, astar_result>>
               ELSE /\ astar_result' = st.ret
                    /\ pc' = "ready"
                    /\ visited' = {}
                    /\ distance' = <<>>
                    /\ frontier' = pq_empty
    /\ UNCHANGED <<map_fields, queue, bfs_result>>

\* Mutant of AstarExhausted: the loop does not test the frontier (while True),
\* line 139 pops the empty frontier and the pop fails.
AstarExhausted_pops ==
    /\ pc = "astar"
    /\ pq_len(frontier) = 0
    /\ astar_result' = [tag |-> "IndexError", steps |-> -1]
    /\ pc' = "ready"
    /\ visited' = {}
    /\ distance' = <<>>
    /\ UNCHANGED <<map_fields, queue, frontier, bfs_result>>

\* The frontier is empty: line 154 raises NoPossiblePath.
AstarExhausted ==
    /\ pc = "astar"
    /\ pq_len(frontier) = 0
    /\ astar_result' = NoPossiblePath
    /\ pc' = "ready"
    /\ visited' = {}
    /\ distance' = <<>>
    /\ UNCHANGED <<map_fields, queue, frontier, bfs_result>>

Next ==
    \/ Construct
    \/ BfsCall
    \/ BfsStep
    \/ BfsExhausted
    \/ AstarCall
    \/ AstarStep
    \/ AstarExhausted

Spec == Init /\ [][Next]_vars

\* A search is one synchronous call: a loop that has been entered goes on to
\* its next iteration, or to the raise after it, until the call has ended.
LoopStep ==
    \/ BfsStep
    \/ BfsExhausted
    \/ AstarStep
    \/ AstarExhausted

\* The searches on the maps of RawMaps alone.
InitEnumerated ==
    /\ Init
    /\ array_arg \in RawMaps

FairSpec == InitEnumerated /\ [][Next]_vars /\ WF_vars(LoopStep)

\* The caller of test_reverse: once both searches have ended on Map(text, p, q)
\* it builds Map(text, q, p) from the same text and searches again.
Reverse ==
    /\ pc = "ready"
    /\ bfs_result # NoResult
    /\ astar_result # NoResult
    /\ previous = NoPrevious
    /\ previous' = [bfs |-> bfs_result, astar |-> astar_result]
    /\ \E m \in {init_map(Parse(array_arg), q, p)} :
           /\ array' = m.array
           /\ y_extent' = m.y_extent
           /\ p' = m.p
           /\ q' = m.q
           /\ error' = m.error
           /\ pc' = IF m.error = NoError THEN "ready" ELSE "oob"
    /\ bfs_result' = NoResult
    /\ astar_result' = NoResult
    /\ UNCHANGED <<array_arg, visited, queue, distance, frontier>>

NextReverse ==
    \/ Next
    \/ Reverse

SpecReverse == Init /\ [][NextReverse]_vars

\* get_shortest_path_astar is called on a Map on which get_shortest_path has
\* not run, or is to run again (lines 134-137).
AstarCallFirst ==
    /\ pc = "ready"
    /\ bfs_result = NoResult
    /\ astar_result = NoResult
    /\ \E priority \in DefaultPriorities :
           frontier' = pq_add(pq_empty, p, priority)
    /\ visited' = {}
    /\ distance' = [c \in {p} |-> 0]
    /\ pc' = "astar"
    /\ UNCHANGED <<map_fields, queue, bfs_result, astar_result>>

\* The caller keeps what a search has returned or raised on this Map and is
\* about to call the same method of the same Map once more.
SearchAgain ==
    /\ pc = "ready"
    /\ \/ /\ bfs_result # NoResult
          /\ previous.bfs = NoResult
          /\ previous' = [previous EXCEPT !.bfs = bfs_result]
          /\ bfs_result' = NoResult
          /\ UNCHANGED astar_result
       \/ /\ astar_result # NoResult
          /\ previous.astar = NoResult
          /\ previous' = [previous EXCEPT !.astar = astar_result]
          /\ astar_result' = NoResult
          /\ UNCHANGED bfs_result
    /\ UNCHANGED <<array_arg, array, y_extent, p, q, pc, error, visited, queue,
                   distance, frontier>>

NextRepeat ==
    \/ Next
    \/ AstarCallFirst
    \/ SearchAgain

\* Searches on one Map in any order, each of the two run up to twice.
SpecRepeat == Init /\ [][NextRepeat]_vars

----------------------------------------------------------------------------
\* What the claims speak of, defined on the grid alone.

InBounds(arr, c) ==
    /\ c.y >= 0
    /\ c.x >= 0
    /\ c.y < Len(arr)
    /\ c.x < Len(arr[c.y + 1])

Cells(arr) ==
    {Coord(x, y) : <<x, y>> \in
        UNION {{<<i - 1, j - 1>> : i \in 1..Len(arr[j])} : j \in 1..Len(arr)}}

Tile(arr, c) == arr[c.y + 1][c.x + 1]

\* The cells a move from c may enter: orthogonally adjacent, inside the grid
\* and not blocked.
Moves(arr, c) ==
    {d \in {Coord(c.x - 1, c.y), Coord(c.x + 1, c.y),
            Coord(c.x, c.y - 1), Coord(c.x, c.y + 1)} :
        InBounds(arr, d) /\ Tile(arr, d) # <<BLOCKED>>}

RECURSIVE Layers(_, _, _, _)
\* The least number of moves from the set `reached` (k moves from the start)
\* to b, or -1 when no sequence of moves ends on b.
Layers(arr, reached, b, k) ==
    IF b \in reached THEN k
    ELSE LET next == reached \cup UNION {Moves(arr, c) : c \in reached}
         IN  IF next = reached THEN -1 ELSE Layers(arr, next, b, k + 1)

\* The length of a shortest path from a to b: each step a move onto a
\* passable cell (the start is where the walk stands, it is not entered).
ShortestLength(arr, a, b) == Layers(arr, {a}, b, 0)

RECURSIVE Flood(_, _, _, _)
\* The shortest lengths from the start to every cell a walk can end on: dist
\* holds the cells at most k moves away, `layer` those exactly k moves away.
Flood(arr, dist, layer, k) ==
    CHOOSE res \in
        {IF next = {} THEN dist
         ELSE Flood(arr, dist @@ [c \in next |-> k + 1], next, k + 1) :
            next \in {UNION {Moves(arr, c) : c \in layer} \ DOMAIN dist}} : TRUE

ShortestLengths(arr, a) == Flood(arr, [c \in {a} |-> 0], {a}, 0)

Constructed == pc \in {"ready", "bfs", "astar"}

----------------------------------------------------------------------------
\* C1: whenever a path from p to q through passable cells exists,
\* get_shortest_path_astar returns exactly the length of a shortest
\* 4-directional unit-cost path from p to q.
AstarReturnsShortest ==
    (pc = "ready" /\ astar_result # NoResult /\ ShortestLength(array, p, q) >= 0)
        => astar_result = Steps(ShortestLength(array, p, q))

\* A search that had to walk around blocked cells: more steps than |dx|+|dy|.
AstarDetourWitness ==
    /\ pc = "ready"
    /\ astar_result.tag = "steps"
    /\ astar_result.steps > heuristic(p, q)
    /\ astar_result.steps = ShortestLength(array, p, q)

\* C2: when get_shortest_path and get_shortest_path_astar both return a value
\* on the same Map, the values are equal.
BfsEqualsAstar ==
    (bfs_result.tag = "steps" /\ astar_result.tag = "steps")
        => bfs_result.steps = astar_result.steps

BothReturnWitness ==
    /\ bfs_result.tag = "steps"
    /\ astar_result.tag = "steps"
    /\ bfs_result.steps >= 2
    /\ \E c \in Cells(array) : Tile(array, c) = <<BLOCKED>>

\* C3: the search from p to q and the search from q to p on the same raw map
\* have the same outcome, for both algorithms (pathfind is the A-star one).
SearchSymmetric ==
    (/\ previous # NoPrevious
     /\ pc = "ready"
     /\ bfs_result # NoResult
     /\ astar_result # NoResult)
        => (bfs_result = previous.bfs /\ astar_result = previous.astar)

\* The same, for the calls whose p and q both lie on tiles that are not
\* blocked: the case the tests exercise.
SearchSymmetricOnOpenTiles ==
    (/\ previous # NoPrevious
     /\ pc = "ready"
     /\ bfs_result # NoResult
     /\ astar_result # NoResult
     /\ Tile(array, p) # <<BLOCKED>>
     /\ Tile(array, q) # <<BLOCKED>>)
        => (bfs_result = previous.bfs /\ astar_result = previous.astar)

\* C4: when p = q (in bounds) both searches return 0, whatever the tiles are,
\* also when the cell at p is blocked or has no passable neighbour.
CoincidentReturnsZero ==
    (pc = "ready" /\ p = q)
        => (bfs_result \in {NoResult, Steps(0)} /\ astar_result \in {NoResult, Steps(0)})

CoincidentBlockedWitness ==
    /\ pc = "ready"
    /\ p = q
    /\ Tile(array, p) = <<BLOCKED>>
    /\ Moves(array, p) = {}
    /\ bfs_result = Steps(0)
    /\ astar_result = Steps(0)

\* C5: construction succeeds exactly when p and q are both inside the map,
\* each x measured against the length of its own row; otherwise it raises
\* OutOfBoundsError for a coordinate that is outside and no search is run.
ConstructionChecksBounds ==
    /\ pc = "oob" =>
        /\ error.errors # <<>>
        /\ ~InBounds(array, error.coord)
        /\ (p # None => InBounds(array, p))
        /\ q = None
        /\ bfs_result = NoResult
        /\ astar_result = NoResult
    /\ Constructed =>
        /\ error = NoError
        /\ InBounds(array, p)
        /\ InBounds(array, q)

\* A q rejected for the length of its own row, although a longer row of the
\* map has a cell in that column.
JaggedRejectedWitness ==
    /\ pc = "oob"
    /\ p # None
    /\ error.coord.y >= 0
    /\ error.coord.y < Len(array)
    /\ error.coord.x >= Len(array[error.coord.y + 1])
    /\ \E j \in 1..Len(array) : error.coord.x < Len(array[j])

\* The rule a complaint of _validate_coord is about.
RuleOf(complaint) ==
    CASE complaint[1] = "y coordinate must not be negative" -> "y negative"
      [] complaint[1] = "x coordinate must not be negative" -> "x negative"
      [] complaint[1] = "y coordinate must be maximum" -> "y too large"
      [] complaint[1] = "x coordinate out of range for line" -> "x too large"

\* The rules a coordinate violates on a grid.
ViolatedRules(arr, c) ==
    {r \in {"y negative", "x negative", "y too large", "x too large"} :
        \/ r = "y negative" /\ c.y < 0
        \/ r = "x negative" /\ c.x < 0
        \/ r = "y too large" /\ c.y >= Len(arr)
        \/ r = "x too large" /\ c.y >= 0 /\ c.y < Len(arr)
                             /\ c.x >= Len(arr[c.y + 1])}

\* C6: the OutOfBoundsError of a rejected coordinate lists every rule the
\* coordinate violates, each once, not only the first.
ErrorListsEveryRule ==
    pc = "oob" =>
        /\ {RuleOf(error.errors[i]) : i \in 1..Len(error.errors)}
               = ViolatedRules(array, error.coord)
        /\ Len(error.errors) = Cardinality(ViolatedRules(array, error.coord))

\* Coord(-1, 10) on the five rows of the tests' map: two complaints.
TwoComplaintsWitness ==
    /\ pc = "oob"
    /\ Len(array) = 5
    /\ error.coord = Coord(-1, 10)
    /\ Len(error.errors) = 2
    /\ {RuleOf(error.errors[i]) : i \in 1..2} = {"x negative", "y too large"}

\* C7: when p # q and no path from p to q exists, both searches raise
\* NoPossiblePath and neither returns a step count.
UnreachableRaisesNoPossiblePath ==
    (/\ pc = "ready"
     /\ p # q
     /\ (bfs_result # NoResult \/ astar_result # NoResult)
     /\ ShortestLength(array, p, q) = -1)
        => /\ bfs_result \in {NoResult, NoPossiblePath}
           /\ astar_result \in {NoResult, NoPossiblePath}

\* A goal that is open but enclosed by blocked tiles, as in
\* test_no_possible_path, while the start has somewhere to go.
EnclosedGoalWitness ==
    /\ pc = "ready"
    /\ p # q
    /\ Tile(array, q) # <<BLOCKED>>
    /\ Moves(array, q) = {}
    /\ Moves(array, p) # {}
    /\ bfs_result = NoPossiblePath
    /\ astar_result = NoPossiblePath

\* C9: once construction has succeeded, neither search fails with
\* OutOfBoundsError: an out-of-bounds neighbour probe is never surfaced, the
\* only outcomes are a step count or NoPossiblePath.
SearchNeverOutOfBounds ==
    Constructed =>
        /\ bfs_result.tag \in {"none", "steps", "NoPossiblePath"}
        /\ astar_result.tag \in {"none", "steps", "NoPossiblePath"}
        /\ error = NoError

\* Both searches have ended on a map with rows of different lengths, from a
\* start whose four candidates are not all inside the map.
BorderSearchWitness ==
    /\ pc = "ready"
    /\ bfs_result # NoResult
    /\ astar_result # NoResult
    /\ p # q
    /\ \E i, j \in 1..Len(array) : Len(array[i]) < Len(array[j])
    /\ \E i \in 1..4 : ~InBounds(array, candidates(p)[i])

\* The coordinates _get_neighbours is asked about: every cell and every
\* coordinate one step outside the map.
ProbeCoords(arr) ==
    {Coord(x, y) : <<x, y>> \in
        UNION {{<<i - 1, j - 1>> : i \in 0..(Len(arr[j]) + 1)} : j \in 1..Len(arr)}
        \cup UNION {{<<i - 1, -1>> : i \in 1..Len(arr[1])},
                    {<<i - 1, Len(arr)>> : i \in 1..Len(arr[Len(arr)])}}}

\* What C10 says _get_neighbours(c) emits.
ExpectedNeighbours(arr, c) ==
    SelectSeq(<< [x |-> c.x - 1, y |-> c.y], [x |-> c.x + 1, y |-> c.y],
                 [x |-> c.x, y |-> c.y - 1], [x |-> c.x, y |-> c.y + 1] >>,
              LAMBDA d : InBounds(arr, d) /\ Tile(arr, d) # <<BLOCKED>>)

\* C10: _get_neighbours(c) emits, in the order (x-1,y), (x+1,y), (x,y-1),
\* (x,y+1), exactly the orthogonal coordinates that are inside the grid by
\* their own row's length and whose tile is not "#".
NeighboursAsSpecified ==
    (pc = "ready" /\ bfs_result = NoResult) =>
        \A c \in ProbeCoords(array) :
            get_neighbours(array, y_extent, c) = Return(ExpectedNeighbours(array, c))

\* A cell whose vertical candidate lies beyond the end of a shorter adjacent
\* row and is not emitted, while another neighbour is.
ShorterRowWitness ==
    /\ pc = "ready"
    /\ bfs_result = NoResult
    /\ \E c \in Cells(array) : \E d \in {Coord(c.x, c.y - 1), Coord(c.x, c.y + 1)} :
        /\ d.y >= 0
        /\ d.y < Len(array)
        /\ d.x >= Len(array[d.y + 1])
        /\ get_neighbours(array, y_extent, c).value # <<>>
        /\ \A i \in 1..Len(get_neighbours(array, y_extent, c).value) :
               get_neighbours(array, y_extent, c).value[i] # d

\* C8: on every grid and for every in-bounds p and q both searches end, with
\* a step count or with NoPossiblePath; with an unreachable goal the queue and
\* the frontier run empty although the frontier holds duplicate entries.
SearchesTerminate ==
    /\ (pc = "bfs") ~> (pc = "ready" /\ bfs_result.tag \in {"steps", "NoPossiblePath"})
    /\ (pc = "astar") ~> (pc = "ready" /\ astar_result.tag \in {"steps", "NoPossiblePath"})

\* The A-star loop is running towards a goal it cannot reach, and its frontier
\* holds an entry for a coordinate that has already been expanded.
StaleEntryUnreachableWitness ==
    /\ pc = "astar"
    /\ ShortestLength(array, p, q) = -1
    /\ \E e \in BagToSet(frontier) : e[1] \in visited

\* A bound on the iterations a running loop has left: every iteration of
\* get_shortest_path removes one entry and adds one per cell it marks visited,
\* every iteration of get_shortest_path_astar removes one entry and adds at
\* most four when it marks a cell visited.
BfsRank == 2 * Cardinality(Cells(array) \ visited) + Len(queue)
AstarRank == 5 * Cardinality(Cells(array) \ visited) + pq_len(frontier)

\* Termination without fairness: each iteration that stays in a loop lowers
\* the loop's bound, which is a natural number.
LoopsDescend ==
    [][/\ (pc = "bfs" /\ pc' = "bfs") => BfsRank' < BfsRank
       /\ (pc = "astar" /\ pc' = "astar") => AstarRank' < AstarRank]_vars

----------------------------------------------------------------------------
\* C11: in get_shortest_path_astar every coordinate of visited has its final
\* distance: when n is added to visited, and for as long as the search runs,
\* distance[n] is the length of a shortest path from p to n, and no later
\* iteration changes distance[n].
AstarVisitedFinalized ==
    [][pc' = "astar" =>
        \E shortest \in {ShortestLengths(array', p')} :
            \A n \in visited' :
                /\ n \in DOMAIN distance'
                /\ n \in DOMAIN shortest
                /\ distance'[n] = shortest[n]
                /\ (pc = "astar" /\ n \in visited) => distance'[n] = distance[n]]_vars

\* A visited coordinate other than p that a later expansion has reached again
\* by a longer way: the frontier holds an entry for it whose priority was
\* computed from more steps than its distance.
VisitedReachedAgainWitness ==
    /\ pc = "astar"
    /\ \E n \in visited \ {p} : \E e \in BagToSet(frontier) :
           /\ e[1] = n
           /\ e[2] > distance[n] + heuristic(n, q)

----------------------------------------------------------------------------
\* C12: get_shortest_path dequeues entries in non-decreasing order of their
\* step count, every entry (c, s) of the queue has s equal to the length of a
\* shortest path from p to c, and the steps + 1 returned when q first appears
\* as a neighbour is the length of a shortest path from p to q.
BfsDequeuesInDistanceOrder ==
    [][/\ pc' = "bfs" =>
            \E shortest \in {ShortestLengths(array', p')} :
                \A i \in 1..Len(queue') :
                    /\ queue'[i][1] \in DOMAIN shortest
                    /\ queue'[i][2] = shortest[queue'[i][1]]
       /\ (pc = "bfs" /\ pc' = "bfs" /\ queue' # <<>>) =>
            Head(queue)[2] <= Head(queue')[2]
       /\ (pc = "bfs" /\ bfs_result'.tag = "steps") =>
            bfs_result'.steps = ShortestLength(array, p, q)]_vars

\* The queue holds entries of two distances at once, the nearer ones in front.
TwoLayersQueuedWitness ==
    /\ pc = "bfs"
    /\ Len(queue) >= 2
    /\ Head(queue)[2] >= 1
    /\ Head(queue)[2] < queue[Len(queue)][2]

----------------------------------------------------------------------------
\* C13: the frontier of get_shortest_path_astar may hold several entries for
\* one coordinate, but a coordinate is expanded at most once: an iteration
\* either pops an entry whose coordinate is in visited and only drops it
\* (visited, distance and the rest of the frontier stay as they are), or pops
\* one that is not and adds it to visited, which never shrinks; the value
\* returned is distance[q] of a q that is not in visited, the length of a
\* shortest path.
AstarExpandsOnce ==
    [][/\ (pc = "astar" /\ pc' = "astar") =>
            \E e \in pq_min(frontier) :
                IF e[1] \in visited
                THEN /\ visited' = visited
                     /\ distance' = distance
                     /\ frontier' = pq_remove(frontier, e)
                ELSE /\ visited' = visited \cup {e[1]}
                     /\ pq_remove(frontier, e) \sqsubseteq frontier'
       /\ (pc = "astar" /\ astar_result'.tag = "steps") =>
            /\ q \notin visited
            /\ astar_result'.steps = distance[q]
            /\ astar_result'.steps = ShortestLength(array, p, q)]_vars

\* The entry about to be popped may be a stale one, while a coordinate that
\* has not been expanded yet is held by the frontier more than once.
StalePopWitness ==
    /\ pc = "astar"
    /\ \E e \in pq_min(frontier) : e[1] \in visited
    /\ \E e1, e2 \in BagToSet(frontier) :
           /\ e1[1] = e2[1]
           /\ e1[1] \notin visited
           /\ (e1 # e2 \/ frontier[e1] >= 2)

----------------------------------------------------------------------------
\* C14: in get_shortest_path visited prevents revisits: p is in visited from
\* the start, every coordinate of the queue is in visited and is held once,
\* and an iteration appends only coordinates that were not in visited (so
\* never p, and never a coordinate enqueued before, as visited only grows).
BfsEnqueuesOnce ==
    [][/\ pc' = "bfs" =>
            /\ p' \in visited'
            /\ \A i \in 1..Len(queue') :
                   /\ queue'[i][1] \in visited'
                   /\ \A j \in 1..Len(queue') :
                          i # j => queue'[i][1] # queue'[j][1]
       /\ (pc = "bfs" /\ pc' = "bfs") =>
            /\ visited \subseteq visited'
            /\ SubSeq(queue', 1, Len(queue) - 1) = Tail(queue)
            /\ \A i \in Len(queue)..Len(queue') :
                   /\ queue'[i][1] \notin visited
                   /\ queue'[i][1] # p]_vars

\* The entry at the front of the queue is next to p and next to another
\* coordinate that is in visited: without visited both would be enqueued again.
RevisitPreventedWitness ==
    /\ pc = "bfs"
    /\ Len(queue) >= 1
    /\ Head(queue)[1] # p
    /\ p \in Moves(array, Head(queue)[1])
    /\ \E c \in Moves(array, Head(queue)[1]) \ {p} : c \in visited

----------------------------------------------------------------------------
\* C15: a Map is read-only once constructed: no step of a search changes
\* array, y_extent, p or q, so that a search run again on the same Map, after
\* any searches run in between, ends as it did the first time.
MapReadOnly ==
    [][/\ Constructed =>
            (array' = array /\ y_extent' = y_extent /\ p' = p /\ q' = q)
       /\ (bfs_result' # NoResult /\ previous'.bfs # NoResult) =>
            bfs_result' = previous'.bfs
       /\ (astar_result' # NoResult /\ previous'.astar # NoResult) =>
            astar_result' = previous'.astar]_vars

\* Both searches have ended a second time on the same Map, with a step count
\* of two or more on a grid that has a blocked tile.
SearchedTwiceWitness ==
    /\ pc = "ready"
    /\ previous.bfs.tag = "steps"
    /\ previous.astar.tag = "steps"
    /\ bfs_result.tag = "steps"
    /\ astar_result.tag = "steps"
    /\ astar_result.steps >= 2
    /\ \E c \in Cells(array) : Tile(array, c) = <<BLOCKED>>

----------------------------------------------------------------------------
\* C16: get_shortest_path_astar never pops an empty frontier: the frontier is
\* tested before each pop, an iteration removes an entry that the frontier
\* holds, and with an empty frontier the only step is the raise of
\* NoPossiblePath after the loop.
AstarNeverPopsEmpty ==
    [][pc = "astar" =>
        IF pq_len(frontier) = 0
        THEN astar_result' = NoPossiblePath /\ pc' = "ready"
        ELSE /\ astar_result' # NoPossiblePath
             /\ \E e \in pq_min(frontier) :
                    pc' = "ready" \/ pq_remove(frontier, e) \sqsubseteq frontier']_vars

\* The loop stands at its test with an empty frontier, after it has popped
\* and expanded at least two coordinates.
FrontierDrainedWitness ==
    /\ pc = "astar"
    /\ pq_len(frontier) = 0
    /\ Cardinality(visited) >= 2

----------------------------------------------------------------------------
\* What a search from a to b ends with when it finds a shortest path, if
\* there is one, and raises NoPossiblePath if there is none.
ExpectedOutcome(arr, a, b) ==
    IF ShortestLength(arr, a, b) = -1 THEN NoPossiblePath
    ELSE Steps(ShortestLength(arr, a, b))

\* C17: what get_shortest_path_astar returns or raises is decided by the grid,
\* p and q alone: whichever of several entries of equal priority each pop
\* takes, and whatever priority the seed entry p is given, every run ends
\* with the same step count, or every run raises NoPossiblePath.
AstarOutcomeDetermined ==
    (pc = "ready" /\ astar_result # NoResult)
        => astar_result = ExpectedOutcome(array, p, q)

\* The pop has to choose between entries of lowest priority for two
\* coordinates that are not expanded yet, on the way to a goal that can be
\* reached.
TieWitness ==
    /\ pc = "astar"
    /\ ShortestLength(array, p, q) >= 2
    /\ \E e1, e2 \in pq_min(frontier) :
           /\ e1[1] # e2[1]
           /\ e1[1] \notin visited \cup {q}
           /\ e2[1] \notin visited \cup {q}

\* The same, as two runs on one Map: a second run of get_shortest_path_astar,
\* whatever ties it takes, ends as the first did.
AstarRunsAgree ==
    (astar_result # NoResult /\ previous.astar # NoResult)
        => astar_result = previous.astar

----------------------------------------------------------------------------
\* C18: on the same Map get_shortest_path raises NoPossiblePath exactly when
\* get_shortest_path_astar raises NoPossiblePath.
BfsFailsIffAstarFails ==
    (bfs_result # NoResult /\ astar_result # NoResult)
        => (bfs_result = NoPossiblePath <=> astar_result = NoPossiblePath)

\* Both searches have failed from a start that has somewhere to go, for a
\* goal that is not next to the start.
BothFailWitness ==
    /\ pc = "ready"
    /\ bfs_result = NoPossiblePath
    /\ astar_result = NoPossiblePath
    /\ Moves(array, p) # {}
    /\ heuristic(p, q) >= 2

----------------------------------------------------------------------------
\* C19: construction looks at bounds only, never at the tile under p or q: a
\* coordinate is rejected only when it is outside the map. The tile under the
\* start is not looked at by a search either: from a p on "#" the searches
\* end as from any other start, and may return a step count. A q on "#" with
\* q # p is never emitted as a neighbour: both searches raise NoPossiblePath.
TilesUnderEndpoints ==
    /\ pc = "oob" => ~InBounds(array, error.coord)
    /\ (Constructed /\ p # q /\ Tile(array, q) = <<BLOCKED>>) =>
            /\ bfs_result \in {NoResult, NoPossiblePath}
            /\ astar_result \in {NoResult, NoPossiblePath}
    /\ (Constructed /\ Tile(array, p) = <<BLOCKED>>) =>
            /\ bfs_result \in {NoResult, ExpectedOutcome(array, p, q)}
            /\ astar_result \in {NoResult, ExpectedOutcome(array, p, q)}

\* Both searches have returned a step count of two or more from a start that
\* lies on a blocked tile.
BlockedStartReturnsWitness ==
    /\ pc = "ready"
    /\ Tile(array, p) = <<BLOCKED>>
    /\ bfs_result.tag = "steps"
    /\ astar_result.tag = "steps"
    /\ astar_result.steps >= 2

\* Both searches have raised NoPossiblePath for a goal on a blocked tile that
\* is next to a cell the searches have reached.
BlockedGoalFailsWitness ==
    /\ pc = "ready"
    /\ Tile(array, q) = <<BLOCKED>>
    /\ Tile(array, p) # <<BLOCKED>>
    /\ bfs_result = NoPossiblePath
    /\ astar_result = NoPossiblePath
    /\ \E c \in Cells(array) :
           /\ heuristic(c, q) = 1
           /\ ShortestLength(array, p, c) >= 1

====
